---- MODULE Spec2Model ----
(***************************************************************************)
(* Ledger engine of roinstxs (src/src/engine.rs): the account table, the   *)
(* transaction ledger and the dispute table of TxEngine, and process_tx    *)
(* with its four handlers.                                                 *)
(*                                                                         *)
(* Amounts are f64 in the source.  The amounts fed to the model are small  *)
(* integers, on which f64 addition, subtraction and comparison are exact,  *)
(* so Integers arithmetic is the arithmetic of the code on these inputs.   *)
(* Option<f64> is a sequence: <<>> is None and <<a>> is Some(a).           *)
(***************************************************************************)
EXTENDS Integers, Sequences, FiniteSets, TLC

\* ---------------------------------------------------------------- bounds
MaxClient == 2
MaxTx == 2
MaxRecords == 3

ClientIds == 1..MaxClient
TxIds == 1..MaxTx
\* the amounts of the repository's test (500.0, 1000.0)
Amounts == {500, 1000}

\* ------------------------------------------------------------ data model
None == << >>
Some(a) == << a >>
OptAmounts == {None} \cup {Some(a) : a \in Amounts}

TxType == {"Deposit", "Withdrawal", "Dispute", "Resolve", "Chargeback", "Noop"}

Tx(ty, c, id, amt) == [tx_type |-> ty, tx_id |-> id, client |-> c, amount |-> amt]

\* Tx::default(): TxType::Noop, zero ids, no amount.
DefaultTx == Tx("Noop", 0, 0, None)

\* Account { client, ..Default::default() }
NewAccount(c) == [client |-> c, available |-> 0, held |-> 0, total |-> 0, locked |-> FALSE]

\* HashMap::new()
EmptyMap == [k \in {} |-> k]

\* HashMap::insert / entry().or_insert_with()
Insert(m, k, v) == [x \in DOMAIN m \cup {k} |-> IF x = k THEN v ELSE m[x]]
OrInsert(m, k, v) == [x \in DOMAIN m \cup {k} |-> IF x \in DOMAIN m THEN m[x] ELSE v]

\* the records of the repository's unit test, in order
Scenario ==
  << Tx("Deposit", 1, 1, Some(1000)),
     Tx("Deposit", 1, 2, Some(500)),
     Tx("Dispute", 1, 1, None),
     Tx("Resolve", 1, 1, None),
     Tx("Dispute", 1, 2, None),
     Tx("Chargeback", 1, 2, None) >>

\* ---------------------------------------------------------------- parser
\* A line of text is a sequence of atoms: a separator, a blank, or a word
\* that contains neither (a keyword, a number, any other text).
Separators == {",", ";"}
Blank == " "

\* impl From<&str> for TxType: the five keywords
Keywords ==
  [deposit |-> "Deposit", withdrawal |-> "Withdrawal", dispute |-> "Dispute",
   resolve |-> "Resolve", chargeback |-> "Chargeback"]

\* words that str::parse::<u16>() / parse::<u32>() accept, with their value
IntWords == [w \in {"1", "2"} |-> IF w = "1" THEN 1 ELSE 2]

\* words that str::parse::<f64>() accepts, with their value
FloatValue(w) ==
  CASE w = "1" -> 1 [] w = "2" -> 2 [] w = "5.0" -> 5
    [] w = "500.0" -> 500 [] w = "1000.0" -> 1000
FloatWords == {"1", "2", "5.0", "500.0", "1000.0"}

\* index of the first separator of s, 0 if there is none
RECURSIVE FirstSep(_, _)
FirstSep(s, i) ==
  IF i > Len(s) THEN 0 ELSE IF s[i] \in Separators THEN i ELSE FirstSep(s, i + 1)

\* str::splitn(n, &[',', ';']): at most n pieces, the last one is the rest
RECURSIVE SplitN(_, _)
SplitN(s, n) ==
  LET i == FirstSep(s, 1) IN
    IF n <= 1 \/ i = 0 THEN << s >>
    ELSE << SubSeq(s, 1, i - 1) >> \o SplitN(SubSeq(s, i + 1, Len(s)), n - 1)

\* str::trim()
RECURSIVE Trim(_)
Trim(s) ==
  IF s = << >> THEN s
  ELSE IF Head(s) = Blank THEN Trim(Tail(s))
  ELSE IF s[Len(s)] = Blank THEN Trim(SubSeq(s, 1, Len(s) - 1))
  ELSE s

ParsesInt(p) == Len(p) = 1 /\ p[1] \in DOMAIN IntWords
ParsesFloat(p) == Len(p) = 1 /\ p[1] \in FloatWords
IsKeyword(p) == Len(p) = 1 /\ p[1] \in DOMAIN Keywords

Ok(tx) == [kind |-> "Ok", tx |-> tx, msg |-> ""]
Err(msg) == [kind |-> "Err", tx |-> DefaultTx, msg |-> msg]
\* unreachable!("invalid Tx type")
Panic == [kind |-> "Panic", tx |-> DefaultTx, msg |-> "invalid Tx type"]
NotCalled == [kind |-> "None", tx |-> DefaultTx, msg |-> ""]

\* Tx::from_str
FromStr(v) ==
  LET pieces == SplitN(v, 4)
      d == [i \in 1..Len(pieces) |-> Trim(pieces[i])]
  IN IF ~IsKeyword(d[1]) THEN Panic
     ELSE IF Len(d) < 2 THEN Err("missing client")
     ELSE IF ~ParsesInt(d[2]) THEN Err("could not parse client to u16")
     ELSE IF Len(d) < 3 THEN Err("missing transaction")
     ELSE IF ~ParsesInt(d[3]) THEN Err("could not parse tx to u32")
     ELSE Ok(Tx(Keywords[d[1][1]], IntWords[d[2][1]], IntWords[d[3][1]],
                IF Len(d) < 4 THEN None
                ELSE IF ParsesFloat(d[4]) THEN Some(FloatValue(d[4][1]))
                ELSE Some(0)))

\* ----------------------------------------------------------------- state
VARIABLES
  accounts,   \* TxEngine.accounts : ClientId -> Account
  txs,        \* TxEngine.txs      : TxId -> Tx
  desputes,   \* TxEngine.desputes : TxId -> Tx
  panicked,   \* an unwrap() or unreachable!() fired
  last,       \* the record process_tx was last called with
  prev,       \* the account table before that call
  open,       \* tx ids disputed and not since resolved or charged back
  scen,       \* how many records of Scenario have been replayed exactly (-1: diverged)
  nrec,       \* number of records applied
  line,       \* Tx::from_str: the text it is called with
  result,     \* Tx::from_str: what the call produced
  file,       \* reader_loop: the lines of the input file, header first
  fpos,       \* reader_loop: number of lines consumed
  fstatus,    \* reader_loop: "idle", "running", "done" (Ok), "error" (Err) or "panic"
  fout,       \* reader_loop: the account rows written to stdout, if any
  pc,         \* handle_connection: where each connection's task stands
  ended,      \* handle_connection: the peer has closed the connection's stream
  cur,        \* handle_connection: the record `tx` a task holds
  holder,     \* tokio Mutex: the connection whose guard is alive, 0 if none
  queue,      \* tokio Mutex: the tasks waiting in lock().await, first come first
  snap,       \* summarize_accounts: the rows each connection buffered
  wrote,      \* TestWriter::write was called for the connection
  nsent       \* lines received over all connections

engineVars == << accounts, txs, desputes, panicked, last, prev, open, scen, nrec >>
parserVars == << line, result >>
fileVars == << file, fpos, fstatus, fout >>
netVars == << pc, ended, cur, holder, queue, snap, wrote, nsent >>
vars == << engineVars, parserVars, fileVars, netVars >>

\* no call of Tx::from_str has been made
ParserIdle == line = << >> /\ result = NotCalled

\* nothing written to the sink
NoOutput == [written |-> FALSE, rows |-> EmptyMap]

\* reader_loop is not running
FileIdle == file = << >> /\ fpos = 0 /\ fstatus = "idle" /\ fout = NoOutput

\* the connections the listener can accept
MaxConns == 2
Conns == 1..MaxConns

\* no connection accepted, the engine's mutex free
NetIdle ==
  /\ pc = [c \in Conns |-> "idle"]
  /\ ended = [c \in Conns |-> FALSE]
  /\ cur = [c \in Conns |-> DefaultTx]
  /\ holder = 0
  /\ queue = << >>
  /\ snap = [c \in Conns |-> NoOutput]
  /\ wrote = [c \in Conns |-> FALSE]
  /\ nsent = 0

\* TxEngine::new()
Init ==
  /\ accounts = EmptyMap
  /\ txs = EmptyMap
  /\ desputes = EmptyMap
  /\ panicked = FALSE
  /\ last = DefaultTx
  /\ prev = EmptyMap
  /\ open = {}
  /\ scen = 0
  /\ nrec = 0
  /\ ParserIdle
  /\ FileIdle
  /\ NetIdle

\* ------------------------------------------------------------- handlers
\* mutant: the `if account.locked { return; }` guard is missing
ProcessDepositAndWithdrawal_NoLockCheck(tx) ==
  LET accs == OrInsert(accounts, tx.client, NewAccount(tx.client))
      account == accs[tx.client]
  IN IF tx.amount = None
       THEN /\ accounts' = accs
            /\ UNCHANGED << txs, desputes, panicked >>
       ELSE LET amount == tx.amount[1] IN
         IF tx.tx_type = "Deposit"
           THEN /\ accounts' = [accs EXCEPT ![tx.client].available = @ + amount,
                                            ![tx.client].total = @ + amount]
                /\ txs' = Insert(txs, tx.tx_id, tx)
                /\ UNCHANGED << desputes, panicked >>
           ELSE /\ accounts' = IF account.available >= amount
                                 THEN [accs EXCEPT ![tx.client].available = @ - amount,
                                                   ![tx.client].total = @ - amount]
                                 ELSE accs
                /\ txs' = Insert(txs, tx.tx_id, tx)
                /\ UNCHANGED << desputes, panicked >>

\* mutant: the `if account.available >= amount` guard is missing
ProcessDepositAndWithdrawal_Overdraw(tx) ==
  LET accs == OrInsert(accounts, tx.client, NewAccount(tx.client))
      account == accs[tx.client]
  IN IF account.locked \/ tx.amount = None
       THEN /\ accounts' = accs
            /\ UNCHANGED << txs, desputes, panicked >>
       ELSE LET amount == tx.amount[1] IN
         /\ accounts' = IF tx.tx_type = "Deposit"
                          THEN [accs EXCEPT ![tx.client].available = @ + amount,
                                            ![tx.client].total = @ + amount]
                          ELSE [accs EXCEPT ![tx.client].available = @ - amount,
                                            ![tx.client].total = @ - amount]
         /\ txs' = Insert(txs, tx.tx_id, tx)
         /\ UNCHANGED << desputes, panicked >>

\* mutant: the account is looked up with get() instead of entry(); a
\* Withdrawal for a client without an account is stored without creating one
ProcessDepositAndWithdrawal_NoEntry(tx) ==
  IF tx.client \notin DOMAIN accounts /\ tx.tx_type = "Withdrawal" /\ tx.amount # None
    THEN /\ txs' = Insert(txs, tx.tx_id, tx)
         /\ UNCHANGED << accounts, desputes, panicked >>
    ELSE LET accs == OrInsert(accounts, tx.client, NewAccount(tx.client))
             account == accs[tx.client]
         IN IF account.locked \/ tx.amount = None
              THEN /\ accounts' = accs
                   /\ UNCHANGED << txs, desputes, panicked >>
              ELSE LET amount == tx.amount[1] IN
                /\ accounts' = IF tx.tx_type = "Deposit"
                                 THEN [accs EXCEPT ![tx.client].available = @ + amount,
                                                   ![tx.client].total = @ + amount]
                                 ELSE IF account.available >= amount
                                   THEN [accs EXCEPT ![tx.client].available = @ - amount,
                                                     ![tx.client].total = @ - amount]
                                   ELSE accs
                /\ txs' = Insert(txs, tx.tx_id, tx)
                /\ UNCHANGED << desputes, panicked >>

ProcessDepositAndWithdrawal(tx) ==
  LET accs == OrInsert(accounts, tx.client, NewAccount(tx.client))
      account == accs[tx.client]
  IN IF account.locked
       THEN /\ accounts' = accs
            /\ UNCHANGED << txs, desputes, panicked >>
       ELSE IF tx.amount = None
         THEN /\ accounts' = accs
              /\ UNCHANGED << txs, desputes, panicked >>
         ELSE LET amount == tx.amount[1] IN
           IF tx.tx_type = "Deposit"
             THEN /\ accounts' = [accs EXCEPT ![tx.client].available = @ + amount,
                                              ![tx.client].total = @ + amount]
                  /\ txs' = Insert(txs, tx.tx_id, tx)
                  /\ UNCHANGED << desputes, panicked >>
             ELSE /\ accounts' = IF account.available >= amount
                                   THEN [accs EXCEPT ![tx.client].available = @ - amount,
                                                     ![tx.client].total = @ - amount]
                                   ELSE accs
                  /\ txs' = Insert(txs, tx.tx_id, tx)
                  /\ UNCHANGED << desputes, panicked >>

\* mutant: the disputed amount is also taken out of total
ProcessDispute_DropsTotal(tx_id) ==
  IF tx_id \in DOMAIN txs /\ txs[tx_id].amount # None
    THEN LET tx == txs[tx_id]
             amount == tx.amount[1]
         IN /\ accounts' = [accounts EXCEPT ![tx.client].available = @ - amount,
                                            ![tx.client].held = @ + amount,
                                            ![tx.client].total = @ - amount]
            /\ desputes' = Insert(desputes, tx_id, tx)
            /\ UNCHANGED << txs, panicked >>
    ELSE UNCHANGED << accounts, txs, desputes, panicked >>

\* mutant: a Dispute is dropped when the owner's account is locked
ProcessDispute_SkipsLocked(tx_id) ==
  IF tx_id \in DOMAIN txs /\ txs[tx_id].amount # None /\ ~accounts[txs[tx_id].client].locked
    THEN LET tx == txs[tx_id]
             amount == tx.amount[1]
         IN /\ accounts' = [accounts EXCEPT ![tx.client].available = @ - amount,
                                            ![tx.client].held = @ + amount]
            /\ desputes' = Insert(desputes, tx_id, tx)
            /\ UNCHANGED << txs, panicked >>
    ELSE UNCHANGED << accounts, txs, desputes, panicked >>

ProcessDispute(tx_id) ==
  IF tx_id \in DOMAIN txs /\ txs[tx_id].amount # None
    THEN LET tx == txs[tx_id]
             amount == tx.amount[1]
         IN IF tx.client \notin DOMAIN accounts
              THEN /\ panicked' = TRUE
                   /\ UNCHANGED << accounts, txs, desputes >>
              ELSE /\ accounts' = [accounts EXCEPT ![tx.client].available = @ - amount,
                                                   ![tx.client].held = @ + amount]
                   /\ desputes' = Insert(desputes, tx_id, tx)
                   /\ UNCHANGED << txs, panicked >>
    ELSE UNCHANGED << accounts, txs, desputes, panicked >>

\* mutant: a Resolve also clears the lock
ProcessResolve_Unlocks(tx_id) ==
  IF tx_id \in DOMAIN txs /\ txs[tx_id].amount # None
    THEN LET tx == txs[tx_id]
             amount == tx.amount[1]
         IN /\ accounts' = [accounts EXCEPT ![tx.client].available = @ + amount,
                                            ![tx.client].held = @ - amount,
                                            ![tx.client].locked = FALSE]
            /\ desputes' = Insert(desputes, tx_id, tx)
            /\ UNCHANGED << txs, panicked >>
    ELSE UNCHANGED << accounts, txs, desputes, panicked >>

\* mutant: a Resolve releases the funds only when some are held
ProcessResolve_OnlyWhenHeld(tx_id) ==
  IF tx_id \in DOMAIN txs /\ txs[tx_id].amount # None
    THEN LET tx == txs[tx_id]
             amount == tx.amount[1]
         IN /\ accounts' = IF accounts[tx.client].held > amount
                             THEN [accounts EXCEPT ![tx.client].available = @ + amount,
                                                   ![tx.client].held = @ - amount]
                             ELSE accounts
            /\ desputes' = Insert(desputes, tx_id, tx)
            /\ UNCHANGED << txs, panicked >>
    ELSE UNCHANGED << accounts, txs, desputes, panicked >>

ProcessResolve(tx_id) ==
  IF tx_id \in DOMAIN txs /\ txs[tx_id].amount # None
    THEN LET tx == txs[tx_id]
             amount == tx.amount[1]
         IN IF tx.client \notin DOMAIN accounts
              THEN /\ panicked' = TRUE
                   /\ UNCHANGED << accounts, txs, desputes >>
              ELSE /\ accounts' = [accounts EXCEPT ![tx.client].available = @ + amount,
                                                   ![tx.client].held = @ - amount]
                   /\ desputes' = Insert(desputes, tx_id, tx)
                   /\ UNCHANGED << txs, panicked >>
    ELSE UNCHANGED << accounts, txs, desputes, panicked >>

\* mutant: the charged-back amount is taken from available instead of held
ProcessChargeback_FromAvailable(tx_id) ==
  IF tx_id \in DOMAIN txs /\ txs[tx_id].amount # None
    THEN LET tx == txs[tx_id]
             amount == tx.amount[1]
         IN /\ accounts' = [accounts EXCEPT ![tx.client].total = @ - amount,
                                            ![tx.client].available = @ - amount,
                                            ![tx.client].locked = TRUE]
            /\ UNCHANGED << txs, desputes, panicked >>
    ELSE UNCHANGED << accounts, txs, desputes, panicked >>

ProcessChargeback(tx_id) ==
  IF tx_id \in DOMAIN txs /\ txs[tx_id].amount # None
    THEN LET tx == txs[tx_id]
             amount == tx.amount[1]
         IN IF tx.client \notin DOMAIN accounts
              THEN /\ panicked' = TRUE
                   /\ UNCHANGED << accounts, txs, desputes >>
              ELSE /\ accounts' = [accounts EXCEPT ![tx.client].total = @ - amount,
                                                   ![tx.client].held = @ - amount,
                                                   ![tx.client].locked = TRUE]
                   /\ UNCHANGED << txs, desputes, panicked >>
    ELSE UNCHANGED << accounts, txs, desputes, panicked >>

\* mutant: every record first creates the account of the client it names,
\* as the Deposit/Withdrawal handler does
ProcessTx_CreatesAccount(tx) ==
  CASE tx.tx_type \in {"Deposit", "Withdrawal"} -> ProcessDepositAndWithdrawal(tx)
    [] tx.tx_type = "Dispute" /\ tx.tx_id \in DOMAIN txs -> ProcessDispute(tx.tx_id)
    [] tx.tx_type = "Resolve" /\ tx.tx_id \in DOMAIN txs -> ProcessResolve(tx.tx_id)
    [] tx.tx_type = "Chargeback" /\ tx.tx_id \in DOMAIN txs -> ProcessChargeback(tx.tx_id)
    [] OTHER -> /\ accounts' = OrInsert(accounts, tx.client, NewAccount(tx.client))
                /\ UNCHANGED << txs, desputes, panicked >>

\* mutant: a Chargeback is charged to the client named in the record, not
\* to the owner of the referenced transaction
ProcessTx_UsesRecordClient(tx) ==
  CASE tx.tx_type \in {"Deposit", "Withdrawal"} -> ProcessDepositAndWithdrawal(tx)
    [] tx.tx_type = "Dispute" -> ProcessDispute(tx.tx_id)
    [] tx.tx_type = "Resolve" -> ProcessResolve(tx.tx_id)
    [] tx.tx_type = "Chargeback" ->
         IF tx.tx_id \in DOMAIN txs /\ txs[tx.tx_id].amount # None
           THEN LET amount == txs[tx.tx_id].amount[1]
                    accs == OrInsert(accounts, tx.client, NewAccount(tx.client))
                IN /\ accounts' = [accs EXCEPT ![tx.client].total = @ - amount,
                                               ![tx.client].held = @ - amount,
                                               ![tx.client].locked = TRUE]
                   /\ UNCHANGED << txs, desputes, panicked >>
           ELSE UNCHANGED << accounts, txs, desputes, panicked >>
    [] OTHER -> /\ panicked' = TRUE
                /\ UNCHANGED << accounts, txs, desputes >>

ProcessTx(tx) ==
  CASE tx.tx_type \in {"Deposit", "Withdrawal"} -> ProcessDepositAndWithdrawal(tx)
    [] tx.tx_type = "Dispute" -> ProcessDispute(tx.tx_id)
    [] tx.tx_type = "Resolve" -> ProcessResolve(tx.tx_id)
    [] tx.tx_type = "Chargeback" -> ProcessChargeback(tx.tx_id)
    [] OTHER -> /\ panicked' = TRUE
                /\ UNCHANGED << accounts, txs, desputes >>

\* ------------------------------------------------------ history variables
\* a reference that finds a ledger entry with an amount is the one the handlers act on
Found(tx_id) == tx_id \in DOMAIN txs /\ txs[tx_id].amount # None

OpenAfter(tx) ==
  CASE tx.tx_type = "Dispute" /\ Found(tx.tx_id) -> open \cup {tx.tx_id}
    [] tx.tx_type \in {"Resolve", "Chargeback"} -> open \ {tx.tx_id}
    [] OTHER -> open

\* tx is the next record of the test, all records so far being the test's
OnScenario(tx) == scen >= 0 /\ scen < Len(Scenario) /\ tx = Scenario[scen + 1]

ScenAfter(tx) == IF OnScenario(tx) THEN scen + 1 ELSE -1

\* one call engine.process_tx(tx), with its history
Record(tx) ==
  /\ ProcessTx(tx)
  /\ last' = tx
  /\ prev' = accounts
  /\ open' = OpenAfter(tx)
  /\ scen' = ScenAfter(tx)
  /\ nrec' = nrec + 1

\* the engine alone: any stream of at most MaxRecords records is explored,
\* and the stream of the test to its end
Apply(tx) ==
  /\ ~panicked
  /\ nrec < MaxRecords \/ OnScenario(tx)
  /\ Record(tx)
  /\ UNCHANGED << parserVars, fileVars, netVars >>

\* --------------------------------------------------------------- actions
Deposit == \E c \in ClientIds, id \in TxIds, amt \in OptAmounts : Apply(Tx("Deposit", c, id, amt))
Withdrawal == \E c \in ClientIds, id \in TxIds, amt \in OptAmounts : Apply(Tx("Withdrawal", c, id, amt))
Dispute == \E c \in ClientIds, id \in TxIds : Apply(Tx("Dispute", c, id, None))
Resolve == \E c \in ClientIds, id \in TxIds : Apply(Tx("Resolve", c, id, None))
Chargeback == \E c \in ClientIds, id \in TxIds : Apply(Tx("Chargeback", c, id, None))

Next == Deposit \/ Withdrawal \/ Dispute \/ Resolve \/ Chargeback

Spec == Init /\ [][Next]_vars

TypeOK ==
  /\ DOMAIN accounts \subseteq ClientIds
  /\ DOMAIN txs \subseteq TxIds
  /\ DOMAIN desputes \subseteq TxIds
  /\ panicked \in BOOLEAN
  /\ nrec \in 0..(MaxRecords + Len(Scenario))

\* ------------------------------------------------- parser specification
MaxFields == 5

\* the texts a field of a generated line can be
FieldTexts ==
  { << "deposit" >>, << "dispute" >>, << "transfer" >>, << "1" >>, << "5.0" >>, << "extra" >>, << >> }

\* the fields f[1..n] joined by separator sep, each padded with blanks when pad
RECURSIVE Join(_, _, _, _)
Join(f, n, sep, pad) ==
  LET fld == IF pad THEN << Blank >> \o f[n] \o << Blank >> ELSE f[n] IN
    IF n = 1 THEN fld ELSE Join(f, n - 1, sep, pad) \o << sep >> \o fld

ParseInit ==
  /\ accounts = EmptyMap /\ txs = EmptyMap /\ desputes = EmptyMap
  /\ panicked = FALSE /\ last = DefaultTx /\ prev = EmptyMap
  /\ open = {} /\ scen = 0 /\ nrec = 0
  /\ result = NotCalled
  /\ FileIdle
  /\ NetIdle
  /\ \E n \in 1..MaxFields, sep \in Separators, pad \in BOOLEAN :
       \E f \in [1..n -> FieldTexts] : line = Join(f, n, sep, pad)

\* one call Tx::from_str(&line)
ParseLine ==
  /\ result = NotCalled
  /\ result' = FromStr(line)
  /\ UNCHANGED << line, engineVars, fileVars, netVars >>

ParseNext == ParseLine

SpecParse == ParseInit /\ [][ParseNext]_vars

\* --------------------------------------------- file batch (reader_loop)
MaxFileLines == 3

HeaderLine == << "type", ",", "client", ",", "tx", ",", "amount" >>

\* the record lines a generated input can hold: two well-formed records, a
\* line whose client does not parse, a line of unknown type, a blank line
InputLines ==
  { << "deposit", ",", "1", ",", "1", ",", "1000.0" >>,
    << "dispute", ",", "1", ",", "1" >>,
    << "deposit", ",", "extra", ",", "1", ",", "1000.0" >>,
    << "transfer", ",", "1", ",", "1", ",", "1000.0" >>,
    << >> }

\* the engine as TxEngine::new() leaves it
EngineInit ==
  /\ accounts = EmptyMap /\ txs = EmptyMap /\ desputes = EmptyMap
  /\ panicked = FALSE /\ last = DefaultTx /\ prev = EmptyMap
  /\ open = {} /\ scen = 0 /\ nrec = 0

\* reader.lines().skip(1): the header is consumed unread
FileInit ==
  /\ EngineInit
  /\ ParserIdle
  /\ \E n \in 0..MaxFileLines : \E body \in [1..n -> InputLines] : file = << HeaderLine >> \o body
  /\ fpos = 1
  /\ fstatus = "running"
  /\ fout = NoOutput
  /\ NetIdle

FileHasLine == fstatus = "running" /\ ~panicked /\ fpos < Len(file)

\* if line.is_empty() { continue; }
FileSkipBlank ==
  /\ FileHasLine
  /\ file[fpos + 1] = << >>
  /\ fpos' = fpos + 1
  /\ UNCHANGED << file, fstatus, fout, engineVars, parserVars, netVars >>

\* Tx::from_str(&line).context(..)? : the error is returned from reader_loop
FileParseError ==
  /\ FileHasLine
  /\ file[fpos + 1] # << >>
  /\ FromStr(file[fpos + 1]).kind = "Err"
  /\ fpos' = fpos + 1
  /\ fstatus' = "error"
  /\ UNCHANGED << file, fout, engineVars, parserVars, netVars >>

\* Tx::from_str panics: the process unwinds out of reader_loop
FileParsePanic ==
  /\ FileHasLine
  /\ file[fpos + 1] # << >>
  /\ FromStr(file[fpos + 1]).kind = "Panic"
  /\ fpos' = fpos + 1
  /\ fstatus' = "panic"
  /\ UNCHANGED << file, fout, engineVars, parserVars, netVars >>

\* tx_engine.process_tx(tx)
FileApply ==
  /\ FileHasLine
  /\ file[fpos + 1] # << >>
  /\ FromStr(file[fpos + 1]).kind = "Ok"
  /\ Record(FromStr(file[fpos + 1]).tx)
  /\ fpos' = fpos + 1
  /\ UNCHANGED << file, fstatus, fout, parserVars, netVars >>

\* tx_engine.summarize_accounts(stdout)?; Ok(())
FileSummarize ==
  /\ fstatus = "running"
  /\ ~panicked
  /\ fpos = Len(file)
  /\ fout' = [written |-> TRUE, rows |-> accounts]
  /\ fstatus' = "done"
  /\ UNCHANGED << file, fpos, engineVars, parserVars, netVars >>

FileNext == FileSkipBlank \/ FileParseError \/ FileParsePanic \/ FileApply \/ FileSummarize

SpecFile == FileInit /\ [][FileNext]_vars

\* ------------------------------------ network listener (handle_stream)
MaxNetLines == 2

\* let tx_engine = Arc::new(Mutex::new(TxEngine::new())); no connection yet
NetInit ==
  /\ EngineInit
  /\ ParserIdle
  /\ FileIdle
  /\ NetIdle

\* a line of the stream reaches the task that awaits lines.next_line()
NetCanRead(c) == pc[c] = "read" /\ ~ended[c] /\ nsent < MaxNetLines

\* listener.accept() and tokio::spawn(handle_connection(..))
NetAccept(c) ==
  /\ pc[c] = "idle"
  /\ pc' = [pc EXCEPT ![c] = "read"]
  /\ UNCHANGED << ended, cur, holder, queue, snap, wrote, nsent, engineVars, parserVars, fileVars >>

\* the peer closes its side: next_line() yields Ok(None) from now on
NetClose(c) ==
  /\ pc[c] # "idle"
  /\ ~ended[c]
  /\ ended' = [ended EXCEPT ![c] = TRUE]
  /\ UNCHANGED << pc, cur, holder, queue, snap, wrote, nsent, engineVars, parserVars, fileVars >>

\* if line.is_empty() { continue; }
NetSkipBlank(c) ==
  /\ NetCanRead(c)
  /\ nsent' = nsent + 1
  /\ UNCHANGED << pc, ended, cur, holder, queue, snap, wrote, engineVars, parserVars, fileVars >>

\* Err(err) => { eprintln!(..); continue; }
NetParseError(c, l) ==
  /\ NetCanRead(c)
  /\ l # << >>
  /\ FromStr(l).kind = "Err"
  /\ nsent' = nsent + 1
  /\ UNCHANGED << pc, ended, cur, holder, queue, snap, wrote, engineVars, parserVars, fileVars >>

\* Tx::from_str panics: the task ends, tokio keeps the runtime alive
NetParsePanic(c, l) ==
  /\ NetCanRead(c)
  /\ l # << >>
  /\ FromStr(l).kind = "Panic"
  /\ nsent' = nsent + 1
  /\ pc' = [pc EXCEPT ![c] = "panicked"]
  /\ UNCHANGED << ended, cur, holder, queue, snap, wrote, engineVars, parserVars, fileVars >>

\* Ok(tx) => tx
NetParsed(c, l) ==
  /\ NetCanRead(c)
  /\ l # << >>
  /\ FromStr(l).kind = "Ok"
  /\ nsent' = nsent + 1
  /\ cur' = [cur EXCEPT ![c] = FromStr(l).tx]
  /\ pc' = [pc EXCEPT ![c] = "lock"]
  /\ UNCHANGED << ended, holder, queue, snap, wrote, engineVars, parserVars, fileVars >>

\* while let Ok(Some(line)) = .. fails: the stream has ended
NetEof(c) ==
  /\ pc[c] = "read"
  /\ ended[c]
  /\ pc' = [pc EXCEPT ![c] = "eof_lock"]
  /\ UNCHANGED << ended, cur, holder, queue, snap, wrote, nsent, engineVars, parserVars, fileVars >>

\* where a task stands once it owns the guard
Locked(at) == IF at \in {"lock", "wait"} THEN "process_tx" ELSE "summarize"

\* where a task stands while it waits for the guard
Waiting(at) == IF at = "lock" THEN "wait" ELSE "eof_wait"

\* mutant: lock() returns a guard whether or not another guard is alive
NetLock_NoWait(c) ==
  /\ pc[c] \in {"lock", "eof_lock"}
  /\ holder' = c
  /\ pc' = [pc EXCEPT ![c] = Locked(pc[c])]
  /\ UNCHANGED << ended, cur, queue, snap, wrote, nsent, engineVars, parserVars, fileVars >>

\* engine.lock().await, first poll: the guard if the mutex is free and nobody
\* waits, a place at the end of the waiters' queue otherwise
NetLock(c) ==
  /\ pc[c] \in {"lock", "eof_lock"}
  /\ IF holder = 0 /\ queue = << >>
       THEN /\ holder' = c
            /\ pc' = [pc EXCEPT ![c] = Locked(pc[c])]
            /\ UNCHANGED queue
       ELSE /\ queue' = Append(queue, c)
            /\ pc' = [pc EXCEPT ![c] = Waiting(pc[c])]
            /\ UNCHANGED holder
  /\ UNCHANGED << ended, cur, snap, wrote, nsent, engineVars, parserVars, fileVars >>

\* engine.lock().await, woken: the released mutex goes to the first waiter
NetGrant(c) ==
  /\ pc[c] \in {"wait", "eof_wait"}
  /\ holder = 0
  /\ queue # << >>
  /\ Head(queue) = c
  /\ holder' = c
  /\ queue' = Tail(queue)
  /\ pc' = [pc EXCEPT ![c] = Locked(pc[c])]
  /\ UNCHANGED << ended, cur, snap, wrote, nsent, engineVars, parserVars, fileVars >>

\* engine.process_tx(tx); the guard is dropped at the end of the loop body,
\* or by the unwinding if process_tx panics
NetProcessTx(c) ==
  /\ pc[c] = "process_tx"
  /\ Record(cur[c])
  /\ holder' = 0
  /\ pc' = [pc EXCEPT ![c] = IF panicked' THEN "panicked" ELSE "read"]
  /\ UNCHANGED << ended, cur, queue, snap, wrote, nsent, parserVars, fileVars >>

\* summarize_accounts: the header and one row per account go to the BufWriter
NetSummarize(c) ==
  /\ pc[c] = "summarize"
  /\ snap' = [snap EXCEPT ![c] = [written |-> TRUE, rows |-> accounts]]
  /\ pc' = [pc EXCEPT ![c] = "write"]
  /\ UNCHANGED << ended, cur, holder, queue, wrote, nsent, engineVars, parserVars, fileVars >>

\* the BufWriter is dropped and flushes into TestWriter::write, which is
\* todo!(): the task panics and the unwinding drops the guard
NetWrite(c) ==
  /\ pc[c] = "write"
  /\ wrote' = [wrote EXCEPT ![c] = TRUE]
  /\ holder' = 0
  /\ pc' = [pc EXCEPT ![c] = "panicked"]
  /\ UNCHANGED << ended, cur, queue, snap, nsent, engineVars, parserVars, fileVars >>

\* the steps a task takes by itself
NetTask(c) ==
  NetEof(c) \/ NetLock(c) \/ NetGrant(c) \/ NetProcessTx(c) \/ NetSummarize(c) \/ NetWrite(c)

NetNext ==
  \E c \in Conns :
    \/ NetAccept(c)
    \/ NetClose(c)
    \/ NetSkipBlank(c)
    \/ \E l \in InputLines : NetParseError(c, l)
    \/ \E l \in InputLines : NetParsePanic(c, l)
    \/ \E l \in InputLines : NetParsed(c, l)
    \/ NetEof(c)
    \/ NetLock(c)
    \/ NetGrant(c)
    \/ NetProcessTx(c)
    \/ NetSummarize(c)
    \/ NetWrite(c)

SpecNet == NetInit /\ [][NetNext]_vars

\* the runtime polls every task that can run; peers send and close as they like
SpecNetFair == SpecNet /\ \A c \in Conns : WF_vars(NetTask(c))

\* ---------------------------------------------------------------- claims
IsDW(tx) == tx.tx_type \in {"Deposit", "Withdrawal"}
IsRef(tx) == tx.tx_type \in {"Dispute", "Resolve", "Chargeback"}

C2_LockedIgnoresDepositWithdrawal ==
  [][\A c \in DOMAIN accounts :
       (accounts[c].locked /\ IsDW(last') /\ last'.client = c)
         => /\ accounts'[c].available = accounts[c].available
            /\ accounts'[c].total = accounts[c].total]_vars

\* a Deposit that the account could otherwise take has just hit a locked account
C2_Witness ==
  /\ last.tx_type = "Deposit"
  /\ last.amount # None /\ last.amount[1] > 0
  /\ last.client \in DOMAIN prev
  /\ prev[last.client].locked

\* C3: an account that is locked stays in the table and stays locked,
\* whatever record comes next.
C3_LockedIsTerminal ==
  [][\A c \in DOMAIN accounts :
       accounts[c].locked => (c \in DOMAIN accounts' /\ accounts'[c].locked)]_vars

\* a Resolve has just changed the balances of an account that was already locked
C3_Witness ==
  /\ last.tx_type = "Resolve"
  /\ Found(last.tx_id)
  /\ txs[last.tx_id].client \in DOMAIN prev
  /\ prev[txs[last.tx_id].client].locked
  /\ accounts[txs[last.tx_id].client] # prev[txs[last.tx_id].client]

\* the account of client c in table accs; a client without an entry is the
\* account its first Deposit/Withdrawal would create
AccountOf(accs, c) == IF c \in DOMAIN accs THEN accs[c] ELSE NewAccount(c)

C5_ResolveNotDisputedIsNoOp ==
  [][(/\ last'.tx_type = "Resolve"
      /\ Found(last'.tx_id)
      /\ last'.tx_id \notin open)
       => LET o == txs[last'.tx_id].client IN accounts'[o] = accounts[o]]_vars

\* C6: a second Dispute for a tx that is still under dispute leaves the
\* owner's available and held as they were.
C6_SecondDisputeHasNoEffect ==
  [][(/\ last'.tx_type = "Dispute"
      /\ last'.tx_id \in open)
       => LET o == txs[last'.tx_id].client IN
            /\ accounts'[o].available = accounts[o].available
            /\ accounts'[o].held = accounts[o].held]_vars

\* C7: a Dispute, Resolve or Chargeback whose tx_id is not in the ledger
\* changes no table, creates no account and does not panic.
C7_UnknownReferenceIsNoOp ==
  [][(IsRef(last') /\ last'.tx_id \notin DOMAIN txs)
       => /\ accounts' = accounts
          /\ txs' = txs
          /\ desputes' = desputes
          /\ ~panicked']_vars

\* a Dispute for an unknown tx_id, naming a client without an account, has
\* just been applied to an engine that already has accounts and ledger entries
C7_Witness ==
  /\ last.tx_type = "Dispute"
  /\ last.tx_id \notin DOMAIN txs
  /\ last.client \notin DOMAIN accounts
  /\ DOMAIN accounts # {}
  /\ DOMAIN txs # {}

\* C8: a Withdrawal of more than available on an unlocked account leaves
\* the balances as they were and is stored in the ledger under its tx_id;
\* no Withdrawal takes available below zero.
C8_InsufficientWithdrawal ==
  [][(last'.tx_type = "Withdrawal" /\ last'.amount # None)
       => LET c == last'.client
              old == AccountOf(accounts, c)
          IN /\ (accounts'[c].available >= 0 \/ accounts'[c].available = old.available)
             /\ (~old.locked /\ last'.amount[1] > old.available)
                  => /\ accounts'[c] = old
                     /\ last'.tx_id \in DOMAIN txs'
                     /\ txs'[last'.tx_id] = last']_vars

\* a Withdrawal of more than a positive available balance has just been applied
C8_Witness ==
  /\ last.tx_type = "Withdrawal"
  /\ last.amount # None
  /\ last.client \in DOMAIN prev
  /\ ~prev[last.client].locked
  /\ prev[last.client].available > 0
  /\ last.amount[1] > prev[last.client].available
  /\ last.tx_id \in DOMAIN txs
  /\ txs[last.tx_id] = last

Balances(av, he, to, lo) == [client |-> 1, available |-> av, held |-> he, total |-> to, locked |-> lo]

\* C9: Dispute(t) moves exactly the ledger amount of t from available to
\* held (total and locked untouched); Chargeback(t) takes exactly that
\* amount from held and from total, leaves available and locks; and the
\* test's six records pass through (500,1000,1500), (1500,0,1500) and end
\* at (1000,0,1000,locked).
C9_Exact ==
  (Found(last'.tx_id) /\ last'.tx_type \in {"Dispute", "Chargeback"})
    => LET o == txs[last'.tx_id].client
           a == txs[last'.tx_id].amount[1]
       IN /\ \A c \in DOMAIN accounts \ {o} : accounts'[c] = accounts[c]
          /\ DOMAIN accounts' = DOMAIN accounts
          /\ last'.tx_type = "Dispute"
               => /\ accounts'[o].available = accounts[o].available - a
                  /\ accounts'[o].held = accounts[o].held + a
                  /\ accounts'[o].total = accounts[o].total
                  /\ accounts'[o].locked = accounts[o].locked
          /\ last'.tx_type = "Chargeback"
               => /\ accounts'[o].available = accounts[o].available
                  /\ accounts'[o].held = accounts[o].held - a
                  /\ accounts'[o].total = accounts[o].total - a
                  /\ accounts'[o].locked

C9_ScenarioStates ==
  /\ scen = 3 => accounts[1] = Balances(500, 1000, 1500, FALSE)
  /\ scen = 4 => accounts[1] = Balances(1500, 0, 1500, FALSE)
  /\ scen = 6 => accounts[1] = Balances(1000, 0, 1000, TRUE)

C9_DisputeChargebackExact == [][C9_Exact]_vars /\ []C9_ScenarioStates

\* the six records of the test have been replayed
C9_Witness ==
  /\ scen = 6
  /\ accounts[1].locked
  /\ prev[1].held = 500

\* C10: a Deposit or Withdrawal whose tx_id is already in the ledger changes
\* no balance and does not replace the stored entry.
C10_DuplicateTxIdNotApplied ==
  [][(IsDW(last') /\ last'.tx_id \in DOMAIN txs)
       => /\ AccountOf(accounts', last'.client) = AccountOf(accounts, last'.client)
          /\ txs'[last'.tx_id] = txs[last'.tx_id]]_vars

\* C14: a Dispute, Resolve or Chargeback acts on the account that owns the
\* referenced ledger transaction, by that transaction's stored amount; every
\* other account, the one of the client named in the record included, is
\* neither changed, created nor locked.
C14_RefActsOnOwner ==
  [][(IsRef(last') /\ Found(last'.tx_id))
       => LET o == txs[last'.tx_id].client
              a == txs[last'.tx_id].amount[1]
          IN /\ DOMAIN accounts' = DOMAIN accounts
             /\ \A c \in DOMAIN accounts \ {o} : accounts'[c] = accounts[c]
             /\ last'.tx_type = "Dispute" => accounts'[o].held = accounts[o].held + a
             /\ last'.tx_type = "Resolve" => accounts'[o].held = accounts[o].held - a
             /\ last'.tx_type = "Chargeback"
                  => (accounts'[o].total = accounts[o].total - a /\ accounts'[o].locked)]_vars

\* a Chargeback naming another client's account has locked the owner of the
\* transaction and left the named client's account unlocked
C14_Witness ==
  /\ last.tx_type = "Chargeback"
  /\ Found(last.tx_id)
  /\ last.client # txs[last.tx_id].client
  /\ last.client \in DOMAIN accounts
  /\ ~accounts[last.client].locked
  /\ accounts[txs[last.tx_id].client].locked
  /\ ~prev[txs[last.tx_id].client].locked

\* C15: on a locked account Dispute, Resolve and Chargeback still apply
\* their balance effect.
C15_LockedStillDisputable ==
  [][(IsRef(last') /\ Found(last'.tx_id) /\ accounts[txs[last'.tx_id].client].locked)
       => LET o == txs[last'.tx_id].client
              a == txs[last'.tx_id].amount[1]
          IN /\ last'.tx_type = "Dispute"
                  => /\ accounts'[o].available = accounts[o].available - a
                     /\ accounts'[o].held = accounts[o].held + a
             /\ last'.tx_type = "Resolve"
                  => /\ accounts'[o].available = accounts[o].available + a
                     /\ accounts'[o].held = accounts[o].held - a
             /\ last'.tx_type = "Chargeback"
                  => /\ accounts'[o].total = accounts[o].total - a
                     /\ accounts'[o].held = accounts[o].held - a]_vars

\* a Dispute has just moved funds of an account that was already locked
C15_Witness ==
  /\ last.tx_type = "Dispute"
  /\ Found(last.tx_id)
  /\ prev[txs[last.tx_id].client].locked
  /\ accounts[txs[last.tx_id].client].held
       = prev[txs[last.tx_id].client].held + txs[last.tx_id].amount[1]

\* C16: a Deposit or Withdrawal for a locked account leaves the balances as
\* they were and is stored in the ledger under its tx_id.
C16_LockedArrivalRecorded ==
  [][(/\ IsDW(last')
      /\ last'.amount # None
      /\ last'.client \in DOMAIN accounts
      /\ accounts[last'.client].locked)
       => /\ accounts'[last'.client] = accounts[last'.client]
          /\ last'.tx_id \in DOMAIN txs'
          /\ txs'[last'.tx_id] = last']_vars

RECURSIVE SumAmounts(_)
\* sum of the ledger amounts of the tx ids in S
SumAmounts(S) ==
  IF S = {} THEN 0
  ELSE LET t == CHOOSE x \in S : TRUE IN txs[t].amount[1] + SumAmounts(S \ {t})

\* C19: each account's held is the sum of the ledger amounts of its
\* transactions under dispute, and is never negative.
C19_HeldIsOpenDisputes ==
  \A c \in DOMAIN accounts :
    /\ accounts[c].held = SumAmounts({t \in open : txs[t].client = c})
    /\ accounts[c].held >= 0

\* C20: every ledger record has an amount and an owner whose account
\* exists, accounts are never removed, and no unwrap() has panicked.
C20_LedgerOwnerHasAccount ==
  /\ ~panicked
  /\ \A t \in DOMAIN txs : txs[t].amount # None /\ txs[t].client \in DOMAIN accounts
  /\ DOMAIN prev \subseteq DOMAIN accounts

\* a Resolve has just looked up the owner's account, while another account
\* exists that owns no ledger record
C20_Witness ==
  /\ last.tx_type = "Resolve"
  /\ Found(last.tx_id)
  /\ accounts[txs[last.tx_id].client] # prev[txs[last.tx_id].client]
  /\ \E c \in DOMAIN accounts : \A t \in DOMAIN txs : txs[t].client # c

\* the first n fields of a line, as splitting at every separator gives them
RECURSIVE FirstFields(_, _)
FirstFields(s, n) ==
  LET i == FirstSep(s, 1) IN
    IF i = 0 THEN s
    ELSE IF n <= 1 THEN SubSeq(s, 1, i - 1)
    ELSE SubSeq(s, 1, i) \o FirstFields(SubSeq(s, i + 1, Len(s)), n - 1)

RECURSIVE CountSeps(_)
CountSeps(s) ==
  IF s = << >> THEN 0 ELSE (IF Head(s) \in Separators THEN 1 ELSE 0) + CountSeps(Tail(s))

\* C13: a line whose type field is not one of the five keywords makes
\* Tx::from_str return an error: no record and no panic.
C13_UnknownTypeIsError ==
  (/\ result # NotCalled
   /\ Trim(FirstFields(line, 1)) # << >>
   /\ ~IsKeyword(Trim(FirstFields(line, 1))))
    => result.kind = "Err"

\* C18: a line with more than four fields parses to the same result as the
\* line cut after its fourth field.
C18_ExtraFieldsIgnored ==
  (result # NotCalled /\ CountSeps(line) >= 4)
    => result = FromStr(FirstFields(line, 4))

\* the lines among f[i..] that Tx::from_str turns into a record
RECURSIVE WellFormed(_, _)
WellFormed(f, i) ==
  IF i > Len(f) THEN 0
  ELSE (IF f[i] # << >> /\ FromStr(f[i]).kind = "Ok" THEN 1 ELSE 0) + WellFormed(f, i + 1)

\* C12 (file batch): when the run over an input whose lines all parse or
\* fail with an error has ended, every well-formed line has been applied
\* and the snapshot has been written.
C12_BadLineDoesNotAbort ==
  (/\ fstatus \notin {"idle", "running"}
   /\ \A i \in 2..Len(file) : file[i] = << >> \/ FromStr(file[i]).kind # "Panic")
    => /\ nrec = WellFormed(file, 2)
       /\ fout.written

\* the tasks that are inside the engine
InEngine == { c \in Conns : pc[c] \in {"process_tx", "summarize", "write"} }

C17_EndedStreamSnapshots ==
  \A c \in Conns : ended[c] ~> (wrote[c] /\ pc[c] = "panicked")
====
